---- MODULE Spec2Model ----
(***************************************************************************)
(* OdkGraph: the graph structure of an XlsForm.                            *)
(*                                                                         *)
(* A cell value is a sequence of one-character strings, so that str.strip  *)
(* and the ${...} regular expression are computed character by character.  *)
(* A node (XlsFormRow) is referred to by its rowx: Python holds references *)
(* to the row objects, and rowx identifies a row object of one parse.      *)
(***************************************************************************)
EXTENDS Integers, Sequences, FiniteSets

VARIABLES
    survey,         \* the data rows of the 'survey' sheet (row 0, the header, left out)
    i,              \* the enumerate index of the row parse_ordered_nodes read last
    ancestors,      \* parse_ordered_nodes: the stack of open group/repeat names
    ordered_nodes,  \* the list of XlsFormRows
    node_lookup,    \* OdkGraph.node_lookup: row_name -> rowx of the XlsFormRow
    network,        \* OdkGraph.network: the DiGraph, [nodes, edges]
    pc,             \* "parsing", "ready", or the exception that ended __init__
    result          \* what the last query returned

vars == <<survey, i, ancestors, ordered_nodes, node_lookup, network, pc, result>>

\* ------------------------------------------------------------------ bounds
MaxRows == 4
MaxQueryRows == 3

\* ------------------------------------------------------------ cell values
END_GROUP == <<"e", "n", "d", " ", "g", "r", "o", "u", "p">>
END_REPEAT == <<"e", "n", "d", " ", "r", "e", "p", "e", "a", "t">>
BEGIN_GROUP == <<"b", "e", "g", "i", "n", " ", "g", "r", "o", "u", "p">>
BEGIN_REPEAT == <<"b", "e", "g", "i", "n", " ", "r", "e", "p", "e", "a", "t">>
TEXT == <<"t", "e", "x", "t">>

\* the header of the sheet: survey.row_values(0)
header == <<"type", "name", "calculation">>

\* ${x} as a cell value
Ref(x) == <<"$", "{">> \o x \o <<"}">>

\* str.strip(): leading and trailing whitespace removed
RECURSIVE LStrip(_)
LStrip(s) == IF s # <<>> /\ Head(s) = " " THEN LStrip(Tail(s)) ELSE s

RECURSIVE RStrip(_)
RStrip(s) ==
    IF s # <<>> /\ s[Len(s)] = " " THEN RStrip(SubSeq(s, 1, Len(s) - 1)) ELSE s

Strip(s) == RStrip(LStrip(s))

\* Python truthiness of a str (and of a list)
Truthy(s) == s # <<>>

\* this_row_dict: the header zipped with the stripped cell values. The sheet
\* has the three columns of header; a column that is missing would read as
\* None, which every test of the parser treats as it treats ''
RowDict(row) ==
    [type |-> Strip(row[1]), name |-> Strip(row[2]), calculation |-> Strip(row[3])]

\* row_dict.values(), in header order
Values(row_dict) == <<row_dict.type, row_dict.name, row_dict.calculation>>

\* ------------------------------------------------- ODK_VAR_REGEX \$\{(.*?)\}
\* the index of the first "}" of s at or after p, 0 when there is none
RECURSIVE FirstClose(_, _)
FirstClose(s, p) ==
    IF p > Len(s) THEN 0
    ELSE IF s[p] = "}" THEN p
    ELSE FirstClose(s, p + 1)

\* ODK_VAR_REGEX_PROG.findall(s), scanning from index p: the leftmost "${",
\* the shortest run up to a "}", captured; then on from after that "}"
RECURSIVE FindAllFrom(_, _)
FindAllFrom(s, p) ==
    IF p + 2 > Len(s) THEN <<>>
    ELSE IF s[p] = "$" /\ s[p + 1] = "{" /\ FirstClose(s, p + 2) # 0
    THEN LET r == FirstClose(s, p + 2)
         IN  <<SubSeq(s, p + 2, r - 1)>> \o FindAllFrom(s, r + 1)
    ELSE FindAllFrom(s, p + 1)

FindAll(s) == FindAllFrom(s, 1)

\* ------------------------------------------------------------- XlsFormRow
Range(f) == {f[x] : x \in DOMAIN f}

\* collections.Counter of a list: element -> number of occurrences
Counter(list) ==
    [x \in Range(list) |-> Cardinality({j \in DOMAIN list : list[j] = x})]

RECURSIVE FoundIn(_)
FoundIn(values) ==
    IF values = <<>> THEN <<>>
    ELSE FindAll(Head(values)) \o FoundIn(Tail(values))

\* XlsFormRow.parse_dependencies with the innermost ancestor left out
ParseDependenciesNoAncestor(row_dict, row_ancestors) ==
    Counter(FoundIn(Values(row_dict)))

\* XlsFormRow.parse_dependencies: the names found in the values of the row,
\* and the innermost ancestor when there is one
ParseDependencies(row_dict, row_ancestors) ==
    Counter(FoundIn(Values(row_dict))
            \o (IF Truthy(row_ancestors)
                THEN <<row_ancestors[Len(row_ancestors)]>>
                ELSE <<>>))

\* XlsFormRow.__init__ given the offset of the row among the data rows
XlsFormRowFromDataOffset(rowx, row_type, row_name, row_dict, row_ancestors) ==
    [rowx |-> rowx - 1,
     row_type |-> row_type,
     row_name |-> row_name,
     row_dict |-> row_dict,
     ancestors |-> row_ancestors,
     dependency_counter |-> ParseDependencies(row_dict, row_ancestors),
     dependencies |-> <<>>]

\* XlsFormRow.__init__
XlsFormRow(rowx, row_type, row_name, row_dict, row_ancestors) ==
    [rowx |-> rowx,
     row_type |-> row_type,
     row_name |-> row_name,
     row_dict |-> row_dict,
     ancestors |-> row_ancestors,
     dependency_counter |-> ParseDependencies(row_dict, row_ancestors),
     dependencies |-> <<>>]

\* the keys of a Counter
Keys(counter) == DOMAIN counter

\* ---------------------------------------------------------------- OdkGraph
\* DIRECTED_TO_DEPENDENCY: True if and only if an edge points to a dependency
DIRECTED_TO_DEPENDENCY == FALSE

Max(S) == CHOOSE x \in S : \A y \in S : y <= x
Min(S) == CHOOSE x \in S : \A y \in S : x <= y

\* sorted(..., key=lambda x: x.rowx) of nodes given by their rowx
RECURSIVE Sorted(_)
Sorted(S) == IF S = {} THEN <<>> ELSE <<Min(S)>> \o Sorted(S \ {Min(S)})

\* the XlsFormRow of the list with this rowx
NodeAt(nodes, rowx) == CHOOSE n \in Range(nodes) : n.rowx = rowx

\* {node.row_name: node for node in self.ordered_nodes}: a later node of the
\* same name replaces the earlier one
NodeLookup(nodes) ==
    [nm \in {nodes[j].row_name : j \in DOMAIN nodes} |->
        nodes[Max({j \in DOMAIN nodes : nodes[j].row_name = nm})].rowx]

\* the dependencies of one node, with the names the lookup does not hold dropped
DependenciesSkipMissing(node, lookup) ==
    [raised |-> FALSE,
     value |-> Sorted({lookup[nm] :
                        nm \in Keys(node.dependency_counter) \cap DOMAIN lookup})]

\* [self.node_lookup[name] for name in node.dependency_counter], sorted by
\* rowx; self.node_lookup[name] raises KeyError for a name it does not hold
Dependencies(node, lookup) ==
    IF \E nm \in Keys(node.dependency_counter) : nm \notin DOMAIN lookup
    THEN [raised |-> TRUE, value |-> <<>>]
    ELSE [raised |-> FALSE,
          value |-> Sorted({lookup[nm] : nm \in Keys(node.dependency_counter)})]

\* the loop of __init__ that assigns node.dependencies
Resolve(nodes, lookup) ==
    [j \in DOMAIN nodes |->
        [nodes[j] EXCEPT !.dependencies = Dependencies(nodes[j], lookup).value]]

\* XlsFormRow.dependency_pair_iter
DependencyPairIter(node, self_first) ==
    {IF self_first THEN <<node.rowx, d>> ELSE <<d, node.rowx>> :
        d \in Range(node.dependencies)}

\* OdkGraph.generate_network: a DiGraph of every node and every pair
GenerateNetwork(nodes) ==
    [nodes |-> {nodes[j].rowx : j \in DOMAIN nodes},
     edges |-> UNION {DependencyPairIter(nodes[j], DIRECTED_TO_DEPENDENCY) :
                        j \in DOMAIN nodes}]

EmptyNetwork == [nodes |-> {}, edges |-> {}]

\* ------------------------------------------------------------- the sheets
A == <<"a">>
B == <<"b">>
C == <<"c">>

SeqsUpTo(S, n) == UNION {[1..k -> S] : k \in 0..n}

\* the rows a survey sheet is drawn from: <<type, name, calculation>>
Rows ==
    { <<BEGIN_GROUP, A, <<>>>>,
      <<BEGIN_GROUP, <<>>, <<>>>>,
      <<BEGIN_REPEAT, <<" ">>, <<>>>>,
      <<END_GROUP, <<>>, <<>>>>,
      <<END_REPEAT, <<>>, <<>>>>,
      <<END_GROUP, A, <<>>>>,
      <<BEGIN_REPEAT, B, Ref(B)>>,
      <<TEXT, A, <<" ">> \o Ref(B)>>,
      <<TEXT, B, Ref(A) \o Ref(A)>>,
      <<TEXT, A, <<>>>>,
      <<<<>>, B, <<>>>> }

Init ==
    /\ survey \in SeqsUpTo(Rows, MaxRows)
    /\ i = 0
    /\ ancestors = <<>>
    /\ ordered_nodes = <<>>
    /\ node_lookup = <<>>
    /\ network = EmptyNetwork
    /\ pc = "parsing"
    /\ result = [op |-> "none"]

\* ------------------------------------------------- parse_ordered_nodes
\* ancestors.pop() of a non-empty list
Pop(stack) == SubSeq(stack, 1, Len(stack) - 1)

\* row_type in ('end group', 'end repeat'), with 'end repeat' forgotten
ClosesOnlyGroup(this_row_dict) == this_row_dict.type = END_GROUP

\* row_type in ('end group', 'end repeat')
Closes(this_row_dict) == this_row_dict.type \in {END_GROUP, END_REPEAT}

\* row_type and row_name
MakesNode(this_row_dict) ==
    Truthy(this_row_dict.type) /\ Truthy(this_row_dict.name)

\* a marker that opens only when it has a name
OpensNamed(this_row_dict) ==
    /\ this_row_dict.type \in {BEGIN_GROUP, BEGIN_REPEAT}
    /\ Truthy(this_row_dict.name)

\* row_type in ('begin group', 'begin repeat')
Opens(this_row_dict) == this_row_dict.type \in {BEGIN_GROUP, BEGIN_REPEAT}

\* one turn of the loop over survey.get_rows(), for the row after row i
ParseRow ==
    /\ pc = "parsing"
    /\ i < Len(survey)
    /\ LET this_row_dict == RowDict(survey[i + 1])
           row_type == this_row_dict.type
           row_name == this_row_dict.name
       IN  /\ i' = i + 1
           /\ IF Closes(this_row_dict)
              THEN IF ancestors = <<>>
                   THEN /\ pc' = "IndexError"
                        /\ UNCHANGED <<ancestors, ordered_nodes>>
                   ELSE /\ ancestors' = Pop(ancestors)
                        /\ UNCHANGED <<pc, ordered_nodes>>
              ELSE /\ ordered_nodes' =
                        IF MakesNode(this_row_dict)
                        THEN Append(ordered_nodes,
                                    XlsFormRow(i + 1, row_type, row_name,
                                               this_row_dict, ancestors))
                        ELSE ordered_nodes
                   /\ ancestors' =
                        IF Opens(this_row_dict)
                        THEN Append(ancestors, row_name)
                        ELSE ancestors
                   /\ UNCHANGED pc
    /\ UNCHANGED <<survey, node_lookup, network, result>>

\* ------------------------------------------------------ OdkGraph.__init__
\* after the last row: the lookup, the dependencies of every node, the
\* network. A KeyError leaves __init__ before self.network is assigned, and
\* the object under construction is dropped
Construct ==
    /\ pc = "parsing"
    /\ i = Len(survey)
    /\ LET lookup == NodeLookup(ordered_nodes)
       IN  IF \E j \in DOMAIN ordered_nodes :
                    Dependencies(ordered_nodes[j], lookup).raised
           THEN /\ pc' = "KeyError"
                /\ UNCHANGED <<ordered_nodes, node_lookup, network>>
           ELSE /\ pc' = "ready"
                /\ node_lookup' = lookup
                /\ ordered_nodes' = Resolve(ordered_nodes, lookup)
                /\ network' = GenerateNetwork(Resolve(ordered_nodes, lookup))
    /\ UNCHANGED <<survey, i, ancestors, result>>

\* ------------------------------------------------- networkx.DiGraph
\* DiGraph.successors(n): the nodes an edge from n points to
DiGraphSuccessors(net, n) == {v \in net.nodes : <<n, v>> \in net.edges}

\* DiGraph.predecessors(n): the nodes with an edge to n
DiGraphPredecessors(net, n) == {u \in net.nodes : <<u, n>> \in net.edges}

\* breadth-first search against the edges
RECURSIVE ReverseReach(_, _, _)
ReverseReach(net, frontier, seen) ==
    LET new == {u \in net.nodes :
                    \E v \in frontier : <<u, v>> \in net.edges} \ seen
    IN  IF new = {} THEN seen ELSE ReverseReach(net, new, seen \cup new)

\* nx.algorithms.dag.ancestors(G, source): the nodes with a path to source,
\* source itself left out
NxAncestors(net, source) == ReverseReach(net, {source}, {source}) \ {source}

\* the elementary cycles through s whose other nodes are greater than s,
\* grown from the path that starts at s
RECURSIVE CyclesFrom(_, _, _)
CyclesFrom(net, s, path) ==
    LET last == path[Len(path)]
        nexts == {v \in net.nodes : /\ <<last, v>> \in net.edges
                                    /\ v > s
                                    /\ v \notin Range(path)}
    IN  (IF <<last, s>> \in net.edges THEN {path} ELSE {})
            \cup UNION {CyclesFrom(net, s, Append(path, v)) : v \in nexts}

\* nx.simple_cycles(G): every elementary cycle once (a self-loop is a cycle of
\* one node), here as the node sequence that starts at its least node
NxSimpleCycles(net) == UNION {CyclesFrom(net, s, <<s>>) : s \in net.nodes}

\* topological sort by removal of the nodes without in-edges
RECURSIVE Peel(_, _)
Peel(net, left) ==
    LET sources == {n \in left : ~ \E u \in left : <<u, n>> \in net.edges}
    IN  IF sources = {} THEN left ELSE Peel(net, left \ sources)

\* nx.algorithms.is_directed_acyclic_graph(G)
NxIsDirectedAcyclicGraph(net) == Peel(net, net.nodes) = {}

\* ------------------------------------------------------- OdkGraph queries
\* all_dependencies_from_nodes with the input nodes left in the result
AllDependenciesKeepInputs(net, nodes) ==
    Sorted(UNION {NxAncestors(net, node) : node \in nodes})

\* OdkGraph.all_dependencies_from_nodes
AllDependenciesFromNodes(net, nodes) ==
    LET node_set == nodes
        dependencies == UNION {NxAncestors(net, node) : node \in node_set}
        diff == dependencies \ node_set
    IN  Sorted(diff)

\* the pairs of one node that forward_dependencies appends, with the
\* comparison off by one
ForwardPairsOffByOne(node) ==
    SelectSeq([k \in DOMAIN node.dependencies |-> <<node.rowx, node.dependencies[k]>>],
              LAMBDA pair : pair[1] + 1 < pair[2])

\* the pairs of one node that forward_dependencies appends, with the
\* comparison turned round
ForwardPairsBackward(node) ==
    SelectSeq([k \in DOMAIN node.dependencies |-> <<node.rowx, node.dependencies[k]>>],
              LAMBDA pair : pair[1] > pair[2])

\* the inner loop of forward_dependencies: node.rowx < dependency.rowx
ForwardPairs(node) ==
    SelectSeq([k \in DOMAIN node.dependencies |-> <<node.rowx, node.dependencies[k]>>],
              LAMBDA pair : pair[1] < pair[2])

\* OdkGraph.forward_dependencies: the pairs (node, dependency), in node order
RECURSIVE ForwardDependencies(_)
ForwardDependencies(nodes) ==
    IF nodes = <<>> THEN <<>>
    ELSE ForwardPairs(Head(nodes)) \o ForwardDependencies(Tail(nodes))

CallForwardDependencies ==
    /\ pc = "ready"
    /\ result' = [op |-> "forward_dependencies",
                  value |-> ForwardDependencies(ordered_nodes)]
    /\ UNCHANGED <<survey, i, ancestors, ordered_nodes, node_lookup, network, pc>>

CallSimpleCycles ==
    /\ pc = "ready"
    /\ result' = [op |-> "simple_cycles", value |-> NxSimpleCycles(network)]
    /\ UNCHANGED <<survey, i, ancestors, ordered_nodes, node_lookup, network, pc>>

CallIsDirectedAcyclicGraph ==
    /\ pc = "ready"
    /\ result' = [op |-> "is_directed_acyclic_graph",
                  value |-> NxIsDirectedAcyclicGraph(network)]
    /\ UNCHANGED <<survey, i, ancestors, ordered_nodes, node_lookup, network, pc>>

\* OdkGraph.successors
CallSuccessors ==
    /\ pc = "ready"
    /\ \E node \in network.nodes :
          result' = [op |-> "successors", node |-> node,
                     value |-> DiGraphSuccessors(network, node)]
    /\ UNCHANGED <<survey, i, ancestors, ordered_nodes, node_lookup, network, pc>>

\* OdkGraph.predecessors
CallPredecessors ==
    /\ pc = "ready"
    /\ \E node \in network.nodes :
          result' = [op |-> "predecessors", node |-> node,
                     value |-> DiGraphPredecessors(network, node)]
    /\ UNCHANGED <<survey, i, ancestors, ordered_nodes, node_lookup, network, pc>>

CallAllDependenciesFromNodes ==
    /\ pc = "ready"
    /\ \E nodes \in SUBSET network.nodes :
          result' = [op |-> "all_dependencies_from_nodes", nodes |-> nodes,
                     value |-> AllDependenciesFromNodes(network, nodes)]
    /\ UNCHANGED <<survey, i, ancestors, ordered_nodes, node_lookup, network, pc>>

\* ---------------------------------------------------- OdkGraph.__getitem__
\* the values a key, or a component of a slice, is made of
PyNone == [tag |-> "none", ival |-> 0, sval |-> <<>>]
PyInt(n) == [tag |-> "int", ival |-> n, sval |-> <<>>]
PyStr(chars) == [tag |-> "str", ival |-> 0, sval |-> chars]
PySlice(start, stop, step) ==
    [tag |-> "slice", start |-> start, stop |-> stop, step |-> step]

\* the values filter(None, ...) drops: None, 0 and ''
Falsy(v) ==
    \/ v.tag = "none"
    \/ v.tag = "int" /\ v.ival = 0
    \/ v.tag = "str" /\ v.sval = <<>>

\* all(isinstance(i, <tag>) for i in it) reads the iterator up to and with
\* the first value that is not of the type: its index, 0 when all are
RECURSIVE FirstNot(_, _, _)
FirstNot(seq, tag, k) ==
    IF k > Len(seq) THEN 0
    ELSE IF seq[k].tag # tag THEN k
    ELSE FirstNot(seq, tag, k + 1)

\* self.node_lookup.get(v): the node of that name, None otherwise
DictGet(lookup, v) ==
    IF v.tag = "str" /\ v.sval \in DOMAIN lookup THEN PyInt(lookup[v.sval]) ELSE PyNone

\* if start: start = self.ordered_nodes.index(start)
IndexOf(nodes, found) ==
    IF found.tag = "none" THEN PyNone
    ELSE PyInt((CHOOSE j \in DOMAIN nodes : nodes[j].rowx = found.ival) - 1)

\* OdkGraph._get_slicer: non_null is the iterator filter() returns, so the
\* second all() reads only what the first all() left unread
GetSlicer(key, lookup, nodes) ==
    LET attributes == <<key.start, key.stop, key.step>>
        non_null == SelectSeq(attributes, LAMBDA v : ~ Falsy(v))
        not_int == FirstNot(non_null, "int", 1)
        unread == IF not_int = 0 THEN <<>>
                  ELSE SubSeq(non_null, not_int + 1, Len(non_null))
    IN  IF not_int = 0
        THEN [raised |-> "", slicer |-> key]
        ELSE IF FirstNot(unread, "str", 1) = 0
        THEN [raised |-> "",
              slicer |-> PySlice(IndexOf(nodes, DictGet(lookup, key.start)),
                               IndexOf(nodes, DictGet(lookup, key.stop)),
                               PyNone)]
        ELSE [raised |-> "TypeError", slicer |-> key]

\* the 0-based indices start, start + step, ... below stop
RECURSIVE Indices(_, _, _)
Indices(start, stop, step) ==
    IF start >= stop THEN <<>>
    ELSE <<start>> \o Indices(start + step, stop, step)

\* self.ordered_nodes[slicer], for bounds that are not negative: a bound
\* that is no integer and not None is a TypeError, a step of 0 a ValueError
ListSlice(nodes, slicer) ==
    IF \E v \in {slicer.start, slicer.stop, slicer.step} : v.tag = "str"
    THEN [raised |-> "TypeError", value |-> <<>>]
    ELSE IF slicer.step.tag = "int" /\ slicer.step.ival = 0
    THEN [raised |-> "ValueError", value |-> <<>>]
    ELSE LET len == Len(nodes)
             start == IF slicer.start.tag = "none" THEN 0
                      ELSE IF slicer.start.ival > len THEN len
                      ELSE slicer.start.ival
             stop == IF slicer.stop.tag = "none" THEN len
                     ELSE IF slicer.stop.ival > len THEN len
                     ELSE slicer.stop.ival
             step == IF slicer.step.tag = "none" THEN 1 ELSE slicer.step.ival
             picked == Indices(start, stop, step)
         IN  [raised |-> "",
              value |-> [k \in DOMAIN picked |-> nodes[picked[k] + 1].rowx]]

\* OdkGraph.__getitem__, for integers that are not negative
GetItem(key, lookup, nodes) ==
    IF key.tag = "int"
    THEN IF key.ival < Len(nodes)
         THEN [raised |-> "", value |-> <<nodes[key.ival + 1].rowx>>]
         ELSE [raised |-> "IndexError", value |-> <<>>]
    ELSE IF key.tag = "str"
    THEN IF key.sval \in DOMAIN lookup
         THEN [raised |-> "", value |-> <<lookup[key.sval]>>]
         ELSE [raised |-> "KeyError", value |-> <<>>]
    ELSE IF key.tag = "slice"
    THEN LET slicer == GetSlicer(key, lookup, nodes)
         IN  IF slicer.raised # ""
             THEN [raised |-> slicer.raised, value |-> <<>>]
             ELSE ListSlice(nodes, slicer.slicer)
    ELSE [raised |-> "TypeError", value |-> <<>>]

\* the keys the model indexes with
MaxIndex == 1
Bounds == {PyNone, PyStr(<<>>), PyStr(A)} \cup {PyInt(n) : n \in 0..MaxIndex}
Steps == {PyNone, PyInt(2)}
IndexKeys ==
    Bounds \cup {PySlice(start, stop, step) :
                    start \in Bounds, stop \in Bounds, step \in Steps}

CallGetItem ==
    /\ pc = "ready"
    /\ \E key \in IndexKeys :
          LET got == GetItem(key, node_lookup, ordered_nodes)
          IN  result' = [op |-> "getitem", key |-> key,
                         raised |-> got.raised, value |-> got.value]
    /\ UNCHANGED <<survey, i, ancestors, ordered_nodes, node_lookup, network, pc>>

Next ==
    \/ ParseRow
    \/ Construct
    \/ CallForwardDependencies
    \/ CallSimpleCycles
    \/ CallIsDirectedAcyclicGraph

Spec == Init /\ [][Next]_vars

\* the rows the sheets of the indexed queries are drawn from
QueryRows ==
    { <<TEXT, A, <<>>>>,
      <<TEXT, B, Ref(A)>>,
      <<TEXT, C, Ref(B)>>,
      <<TEXT, A, Ref(C)>>,
      <<BEGIN_GROUP, B, <<>>>> }

InitQuery ==
    /\ survey \in SeqsUpTo(QueryRows, MaxQueryRows)
    /\ i = 0
    /\ ancestors = <<>>
    /\ ordered_nodes = <<>>
    /\ node_lookup = <<>>
    /\ network = EmptyNetwork
    /\ pc = "parsing"
    /\ result = [op |-> "none"]

NextQuery ==
    \/ ParseRow
    \/ Construct
    \/ CallSuccessors
    \/ CallPredecessors
    \/ CallAllDependenciesFromNodes
    \/ CallGetItem

SpecQuery == InitQuery /\ [][NextQuery]_vars

\* ----------------------------------------------------------------- claims
Last(seq) == seq[Len(seq)]

\* the names a node depends on: every ${...} of its values, and the innermost
\* of its ancestors
DepNames(node) ==
    Range(FoundIn(Values(node.row_dict)))
        \cup (IF node.ancestors # <<>> THEN {Last(node.ancestors)} ELSE {})

NodeNames == {ordered_nodes[j].row_name : j \in DOMAIN ordered_nodes}

Rowxs == {ordered_nodes[j].rowx : j \in DOMAIN ordered_nodes}

\* C1: rows are parsed in sheet order; the parse of a row fails (IndexError)
\* exactly when the row is an 'end group' or 'end repeat' and the ancestor
\* stack is empty; the stack is then left as it is, no node is added, and
\* nothing happens after the failure: no further row is parsed, no graph built.
C1_UnbalancedCloseFails ==
    [][ /\ pc = "IndexError" => UNCHANGED vars
        /\ (pc = "parsing" /\ i' # i) =>
              LET row_type == Strip(survey[i + 1][1])
                  unbalanced == row_type \in {END_GROUP, END_REPEAT}
                                    /\ ancestors = <<>>
              IN  /\ i' = i + 1
                  /\ (pc' = "IndexError") <=> unbalanced
                  /\ pc' \in {"parsing", "IndexError"}
                  /\ unbalanced =>
                        /\ ancestors' = ancestors
                        /\ ordered_nodes' = ordered_nodes
                        /\ network' = EmptyNetwork
                  /\ (Len(ancestors') < Len(ancestors)) => ancestors # <<>>
      ]_vars

C1_Witness ==
    /\ pc = "IndexError"
    /\ i >= 2
    /\ Strip(survey[i][1]) = END_REPEAT
    /\ ancestors = <<>>
    /\ ordered_nodes # <<>>

\* C2: when some dependency name of some node is the name of no parsed node,
\* construction fails with KeyError and no graph is built; when construction
\* succeeds, the dependencies of every node are parsed nodes, and a name
\* that a later node is the last to bear resolves to that node.
C2_UnknownNameFails ==
    pc \in {"ready", "KeyError"} =>
        /\ (\E j \in DOMAIN ordered_nodes :
                \E d \in DepNames(ordered_nodes[j]) : d \notin NodeNames)
              => (pc = "KeyError" /\ network = EmptyNetwork)
        /\ pc = "ready" =>
              \A j \in DOMAIN ordered_nodes :
                  /\ Range(ordered_nodes[j].dependencies) \subseteq Rowxs
                  /\ \A k \in DOMAIN ordered_nodes :
                        ( /\ k > j
                          /\ ordered_nodes[k].row_name \in DepNames(ordered_nodes[j])
                          /\ \A m \in DOMAIN ordered_nodes :
                                m > k => ordered_nodes[m].row_name
                                            # ordered_nodes[k].row_name )
                        => ordered_nodes[k].rowx
                              \in Range(ordered_nodes[j].dependencies)

C2_Witness ==
    /\ pc = "KeyError"
    /\ Len(ordered_nodes) >= 2
    /\ \E j \in DOMAIN ordered_nodes :
          \E d \in DepNames(ordered_nodes[j]) : d # <<>> /\ d \notin NodeNames

\* C3: after a successful construction, a node with ancestors has, among its
\* dependencies, a node named as the innermost of its ancestors.
C3_InnermostAncestorIsDependency ==
    pc = "ready" =>
        \A j \in DOMAIN ordered_nodes :
            ordered_nodes[j].ancestors # <<>> =>
                \E d \in Range(ordered_nodes[j].dependencies) :
                    NodeAt(ordered_nodes, d).row_name
                        = Last(ordered_nodes[j].ancestors)

C3_Witness ==
    /\ pc = "ready"
    /\ \E j \in DOMAIN ordered_nodes :
          /\ Len(ordered_nodes[j].ancestors) >= 2
          /\ Len(ordered_nodes[j].dependencies) >= 2

\* C7 as claimed: the node built from the k-th data row has position k - 1
\* (the first data row gives position 0).
C7_PositionIsDataRowOffset ==
    [][ (pc = "parsing" /\ Len(ordered_nodes') = Len(ordered_nodes) + 1)
            => Last(ordered_nodes').rowx = i' - 1 ]_vars

\* C7 amended: the node built from the k-th data row has position k, the
\* index of its row in the sheet, whose row 0 is the header; skipped rows
\* and marker rows count.
C7_PositionIsSheetRowIndex ==
    [][ (pc = "parsing" /\ Len(ordered_nodes') = Len(ordered_nodes) + 1)
            => /\ Last(ordered_nodes').rowx = i'
               /\ Last(ordered_nodes').row_dict = RowDict(survey[i']) ]_vars

C7_Witness ==
    /\ Len(ordered_nodes) = 2
    /\ ordered_nodes[1].rowx = 1
    /\ ordered_nodes[2].rowx = 4
    /\ ~ MakesNode(RowDict(survey[2]))
    /\ ~ MakesNode(RowDict(survey[3]))

\* a row whose type is an open or close marker and whose name is empty
NamelessMarker(row) ==
    /\ Strip(row[1]) \in {BEGIN_GROUP, BEGIN_REPEAT, END_GROUP, END_REPEAT}
    /\ Strip(row[2]) = <<>>

\* C8 as claimed: a marker row without a name adds no node and leaves the
\* ancestor stack as it is.
C8_NamelessMarkerLeavesStack ==
    [][ (pc = "parsing" /\ i' = i + 1 /\ NamelessMarker(survey[i + 1]))
            => (ordered_nodes' = ordered_nodes /\ ancestors' = ancestors) ]_vars

\* C8 amended: a marker row without a name adds no node, and acts on the
\* stack as a marker: a close marker pops the innermost entry (and fails on
\* an empty stack), an open marker pushes its empty name.
C8_NamelessMarkerActsOnStack ==
    [][ (pc = "parsing" /\ i' = i + 1 /\ NamelessMarker(survey[i + 1]))
            => /\ ordered_nodes' = ordered_nodes
               /\ IF Strip(survey[i + 1][1]) \in {END_GROUP, END_REPEAT}
                  THEN \/ ancestors = <<>> /\ pc' = "IndexError"
                                           /\ ancestors' = ancestors
                       \/ ancestors # <<>> /\ pc' = "parsing"
                            /\ ancestors' = SubSeq(ancestors, 1, Len(ancestors) - 1)
                  ELSE ancestors' = ancestors \o << <<>> >> ]_vars

C8_Witness ==
    /\ pc = "KeyError"
    /\ i = 3
    /\ NamelessMarker(survey[1])
    /\ Strip(survey[1][1]) = BEGIN_REPEAT
    /\ NamelessMarker(survey[3])
    /\ Len(ordered_nodes) = 1
    /\ ordered_nodes[1].ancestors = << <<>> >>
    /\ ancestors = <<>>

\* the nodes a node depends on directly
DependsOn(n) == Range(NodeAt(ordered_nodes, n).dependencies)

RECURSIVE Closure(_, _)
Closure(S, k) ==
    IF k = 0 THEN S ELSE Closure(S \cup UNION {DependsOn(m) : m \in S}, k - 1)

\* the nodes reached from n by one or more 'depends on' links
TransitiveDependencies(n) == Closure(DependsOn(n), Len(ordered_nodes))

\* C4: all_dependencies_from_nodes(S) is the list, strictly ascending by
\* position, of the nodes reached from a member of S by one or more 'depends
\* on' links, the members of S left out, also when one lies on a cycle.
C4_AllDependenciesIsClosure ==
    result.op = "all_dependencies_from_nodes" =>
        /\ Range(result.value)
              = (UNION {TransitiveDependencies(n) : n \in result.nodes})
                    \ result.nodes
        /\ \A k \in 1..(Len(result.value) - 1) :
              result.value[k] < result.value[k + 1]
        /\ Range(result.value) \cap result.nodes = {}

C4_Witness ==
    /\ result.op = "all_dependencies_from_nodes"
    /\ Cardinality(result.nodes) = 1
    /\ \E n \in result.nodes : n \in TransitiveDependencies(n)
    /\ Len(result.value) >= 2

\* C5 as claimed: successors(n) is the set of the direct dependencies of n,
\* and predecessors(n) the set of the nodes that depend on n.
C5_SuccessorsAreDependencies ==
    /\ result.op = "successors" => result.value = DependsOn(result.node)
    /\ result.op = "predecessors" =>
          result.value = {m \in Rowxs : result.node \in DependsOn(m)}

\* C6 as claimed: a range whose bounds are an integer and a name, in either
\* order, raises TypeError.
C6_MixedRangeRaisesTypeError ==
    ( /\ result.op = "getitem"
      /\ result.key.tag = "slice"
      /\ \/ result.key.start.tag = "int" /\ result.key.stop.tag = "str"
         \/ result.key.start.tag = "str" /\ result.key.stop.tag = "int" )
    => result.raised = "TypeError"

\* the pair (node, the node its innermost ancestor's name resolved to)
AncestorPair(node) == <<node.rowx, node_lookup[Last(node.ancestors)]>>

\* C9 as claimed: on a sheet that is balanced and whose construction
\* succeeds, forward_dependencies() holds no pair of a node and the node
\* that the name of its innermost ancestor resolved to.
C9_AncestorNeverForward ==
    (result.op = "forward_dependencies" /\ ancestors = <<>>) =>
        \A j \in DOMAIN ordered_nodes :
            ordered_nodes[j].ancestors # <<>> =>
                AncestorPair(ordered_nodes[j]) \notin Range(result.value)

\* C9 amended: whenever construction succeeds, forward_dependencies() holds
\* no such pair for a node after which no node bears the name of its
\* innermost ancestor.
C9_AncestorNotForwardUnlessRenamed ==
    result.op = "forward_dependencies" =>
        \A j \in DOMAIN ordered_nodes :
            ( /\ ordered_nodes[j].ancestors # <<>>
              /\ \A k \in DOMAIN ordered_nodes :
                    k > j => ordered_nodes[k].row_name
                                # Last(ordered_nodes[j].ancestors) )
            => AncestorPair(ordered_nodes[j]) \notin Range(result.value)

C9_Witness ==
    /\ result.op = "forward_dependencies"
    /\ result.value # <<>>
    /\ ancestors = <<>>
    /\ \E j \in DOMAIN ordered_nodes :
          /\ ordered_nodes[j].ancestors # <<>>
          /\ \A k \in DOMAIN ordered_nodes :
                k > j => ordered_nodes[k].row_name
                            # Last(ordered_nodes[j].ancestors)
          /\ Len(ordered_nodes[j].dependencies) >= 2

\* C10: in a built graph every cycle is a self-loop or has an edge between
\* the two nodes of a pair of forward_dependencies(); so when there is no
\* such pair and no node depends on itself, the graph is acyclic and
\* simple_cycles() is empty.
C10_CyclesNeedForwardDependency ==
    pc = "ready" =>
        LET forward == Range(ForwardDependencies(ordered_nodes))
            cycles == NxSimpleCycles(network)
        IN  /\ \A c \in cycles :
                  \/ Len(c) = 1 /\ c[1] \in DependsOn(c[1])
                  \/ \E k \in DOMAIN c :
                        LET u == c[k]
                            v == c[(k % Len(c)) + 1]
                        IN  u # v /\ (<<u, v>> \in forward \/ <<v, u>> \in forward)
            /\ (forward = {} /\ \A n \in Rowxs : n \notin DependsOn(n))
                  => (NxIsDirectedAcyclicGraph(network) /\ cycles = {})

C10_Witness ==
    /\ result.op = "simple_cycles"
    /\ \E c \in result.value : Len(c) = 1
    /\ \E c \in result.value : Len(c) >= 2
    /\ ForwardDependencies(ordered_nodes) # <<>>

====
